---- MODULE Spec2Model ----
(***************************************************************************)
(* Model of src/app.py: one run of main() over the table held by the data  *)
(* editor, i.e. DataEngine.clean_and_process, InsightEngine.               *)
(* generate_narrative, the VizEngine chart builders and the export guard.  *)
(* Column names are written with the ASCII names of the specification:     *)
(*   entity_id, energy_kwh, output_qty, oee_raw, facility_id, date         *)
(* and the keys of rename_map as device, machine, energy(kWh), qty(pairs), *)
(* OEE(%).  Floating point numbers are modelled as exact rationals         *)
(* <<numerator, denominator>> in lowest terms with a positive denominator; *)
(* NaN and infinity, which pandas produces for std of one value and for a  *)
(* division by zero, are modelled as separate tagged values.               *)
(***************************************************************************)
EXTENDS Integers, Sequences, FiniteSets, TLC

(***************************************************************************)
(* Rational arithmetic (the float operators +, -, *, /, <, max of Python). *)
(***************************************************************************)
Abs(x) == IF x < 0 THEN -x ELSE x

RECURSIVE GCD(_, _)
GCD(a, b) == IF b = 0 THEN a ELSE GCD(b, a % b)

Norm(n, d) ==
    LET s == IF d < 0 THEN -1 ELSE 1
        g == GCD(Abs(n), Abs(d))
    IN  IF n = 0 THEN <<0, 1>> ELSE <<(s * n) \div g, (s * d) \div g>>

Q(n) == <<n, 1>>
Zero == Q(0)
RAdd(a, b) == Norm(a[1] * b[2] + b[1] * a[2], a[2] * b[2])
RSub(a, b) == Norm(a[1] * b[2] - b[1] * a[2], a[2] * b[2])
RMul(a, b) == Norm(a[1] * b[1], a[2] * b[2])
RDiv(a, b) == Norm(a[1] * b[2], a[2] * b[1])
RLt(a, b) == a[1] * b[2] < b[1] * a[2]
RLe(a, b) == a[1] * b[2] <= b[1] * a[2]
RMax(a, b) == IF RLt(a, b) THEN b ELSE a

RECURSIVE RSum(_)
RSum(s) == IF s = <<>> THEN Zero ELSE RAdd(Head(s), RSum(Tail(s)))

RMean(s) == RDiv(RSum(s), Q(Len(s)))

(***************************************************************************)
(* Inputs of one run: the edited table (its header and its rows) and the   *)
(* three number_input parameters.                                          *)
(***************************************************************************)
MaxRows == 3

rename_map ==
    [c \in {"energy(kWh)", "qty(pairs)", "OEE(%)", "device", "machine"} |->
        CASE c = "energy(kWh)" -> "energy_kwh"
          [] c = "qty(pairs)"  -> "output_qty"
          [] c = "OEE(%)"      -> "oee_raw"
          [] c = "device"      -> "entity_id"
          [] c = "machine"     -> "entity_id"]

required_cols == <<"entity_id", "energy_kwh", "output_qty", "oee_raw">>

DefaultFacility == "imported-site"

Headers ==
    { {"date", "facility_id", "entity_id", "OEE(%)", "qty(pairs)", "energy(kWh)"},
      {"entity_id", "energy_kwh", "output_qty", "oee_raw"},
      {"facility_id", "device", "energy(kWh)", "qty(pairs)", "OEE(%)"},
      {"date", "facility_id", "OEE(%)", "qty(pairs)"},
      {"date", "machine", "energy_kwh", "output_qty"} }

Row(f, m, o, q, e, d) ==
    [facility_id |-> f, entity_id |-> m, oee_raw |-> o,
     output_qty |-> q, energy_kwh |-> e, date |-> d]

InputRows ==
    { Row("A", "M1", Q(65),    2, 1, "ok"),
      Row("A", "M1", <<4, 5>>, 1, 1, "ok"),
      Row("A", "M2", Q(65),    1, 2, "ok"),
      Row("B", "M3", Q(0),     0, 1, "ok"),
      Row("B", "M2", <<1, 2>>, -1, 1, "ok"),
      Row("A", "M3", Q(150),   3, 0, "bad"),
      Row("B", "M1", Q(1),     1, 3, "ok") }

KeyOrder == <<"A", "B", "M1", "M2", "M3", "imported-site">>

ParamSets ==
    [elec_price : {<<7, 2>>}, target_oee : {Q(60), Q(85)}, product_margin : {Q(10), Q(-10)}]

Tables == UNION { [1..n -> InputRows] : n \in 0..MaxRows }

\* Python None: for a table, a tuple or a dict, and for a string or a cell
None == <<>>
NoValue == "None"

VARIABLES
    pc,             \* position of main() / clean_and_process
    columns,        \* header of edited_df
    df_raw,         \* rows of edited_df
    params,         \* the params dict of main
    df_columns,     \* df.columns inside clean_and_process
    df,             \* rows of the working copy df inside clean_and_process
    best_energy,    \* local best_energy of clean_and_process
    group_col,      \* local group_col of clean_and_process
    res,            \* the tuple returned by clean_and_process
    data_ready,     \* main: data_ready
    main_res,       \* main: df_res, summary_res, scope_res
    texts_res,      \* main: texts_res
    figs_res,       \* main: figs_res
    export,         \* main: what the export column shows
    screen          \* main: what the report area shows

engine == <<df_columns, df, best_energy, group_col, res>>
inputs == <<columns, df_raw, params>>
mainv  == <<data_ready, main_res, texts_res, figs_res, export, screen>>
vars == <<pc, inputs, engine, mainv>>

Init ==
    /\ pc = "start"
    /\ columns \in Headers
    /\ df_raw \in Tables
    /\ params \in ParamSets
    /\ df_columns = {}
    /\ df = <<>>
    /\ best_energy = None
    /\ group_col = NoValue
    /\ res = None
    /\ data_ready = FALSE
    /\ main_res = [df |-> None, summary |-> None, scope |-> NoValue]
    /\ texts_res = None
    /\ figs_res = <<>>
    /\ export = "pending"
    /\ screen = "pending"

\* lines 61-64: df = df_raw.copy(); rename every column that is a key of rename_map
RenameColumns(cols) ==
    {IF c \in DOMAIN rename_map THEN rename_map[c] ELSE c : c \in cols}

\* line 61: the copy holds a value only for the columns the table has
CopyRow(r, cols) ==
    [f \in DOMAIN r |-> IF f \in cols THEN r[f] ELSE NoValue]

Rename ==
    /\ pc = "start"
    /\ df_raw # <<>>
    /\ df_columns' = RenameColumns(columns)
    /\ df' = [i \in 1..Len(df_raw) |-> CopyRow(df_raw[i], RenameColumns(columns))]
    /\ pc' = "validate"
    /\ UNCHANGED <<inputs, best_energy, group_col, res, mainv>>

\* line 408: an empty table skips the analysis
SkipEmpty ==
    /\ pc = "start"
    /\ df_raw = <<>>
    /\ pc' = "export"
    /\ UNCHANGED <<inputs, engine, mainv>>

\* a variant of MissingCols that reports only the first missing column
MissingColsFirstOnly(cols) ==
    LET m == SelectSeq(required_cols, LAMBDA c : c \notin cols)
    IN  IF m = <<>> THEN m ELSE <<m[1]>>

\* line 68: [c for c in required_cols if c not in df.columns]
MissingCols(cols) == SelectSeq(required_cols, LAMBDA c : c \notin cols)

\* lines 66-68; the third slot of the returned tuple is the message, kept
\* as its kind and the list formatted into it
Validate ==
    /\ pc = "validate"
    /\ IF MissingCols(df_columns) # <<>>
       THEN /\ res' = [df |-> None, summary |-> None,
                       third |-> [kind |-> "missing_columns",
                                  cols |-> MissingCols(df_columns)]]
            /\ pc' = "returned"
       ELSE /\ res' = res
            /\ pc' = "dates"
    /\ UNCHANGED <<inputs, df_columns, df, best_energy, group_col, mainv>>

\* line 71: pd.to_datetime(..., errors='coerce').dt.date
ToDate(d) == IF d = "ok" THEN "date" ELSE "NaT"

\* lines 70-72
ParseDates ==
    /\ pc = "dates"
    /\ IF "date" \in df_columns
       THEN LET parsed == [i \in 1..Len(df) |-> [df[i] EXCEPT !.date = ToDate(@)]]
            IN  /\ df' = parsed
                /\ IF \E i \in 1..Len(parsed) : parsed[i].date = "NaT"
                   THEN /\ res' = [df |-> None, summary |-> None,
                                   third |-> [kind |-> "date_format"]]
                        /\ pc' = "returned"
                   ELSE /\ res' = res
                        /\ pc' = "facility"
       ELSE /\ df' = df
            /\ res' = res
            /\ pc' = "facility"
    /\ UNCHANGED <<inputs, df_columns, best_energy, group_col, mainv>>

\* line 74
FillFacility ==
    /\ pc = "facility"
    /\ IF "facility_id" \notin df_columns
       THEN /\ df_columns' = df_columns \cup {"facility_id"}
            /\ df' = [i \in 1..Len(df) |-> [df[i] EXCEPT !.facility_id = DefaultFacility]]
       ELSE /\ UNCHANGED <<df_columns, df>>
    /\ pc' = "metrics"
    /\ UNCHANGED <<inputs, best_energy, group_col, res, mainv>>

\* line 76: lambda x: x / 100.0 if x > 1.0 else x
NormalizeOEE(x) == IF RLt(Q(1), x) THEN RDiv(x, Q(100)) ELSE x

\* line 77: row qty > 0 ? energy / qty : 0
UnitEnergy(energy, qty) == IF qty > 0 THEN RDiv(Q(energy), Q(qty)) ELSE Zero

RECURSIVE RMinSeq(_)
RMinSeq(s) ==
    IF Len(s) = 1 THEN s[1]
    ELSE LET m == RMinSeq(Tail(s)) IN IF RLt(m, s[1]) THEN m ELSE s[1]

\* a variant of BestEnergy that forgets the filter on positive unit energies
BestEnergyUnfiltered(ues) == IF ues = <<>> THEN Zero ELSE RMinSeq(ues)

\* lines 79-80: minimum of the strictly positive unit energies, 0 if there is none
BestEnergy(ues) ==
    LET valid_energies == SelectSeq(ues, LAMBDA u : RLt(Zero, u))
    IN  IF valid_energies = <<>> THEN Zero ELSE RMinSeq(valid_energies)

\* line 82
EnergyLoss(ue, best, qty, price) ==
    RMax(Zero, RMul(RMul(RSub(ue, best), Q(qty)), price))

\* line 113 and line 84: params['target_oee'] / 100
TargetFraction(p) == RDiv(p.target_oee, Q(100))

\* a variant of CapacityLoss that takes target_oee as a fraction already
CapacityLossPercent(oee, qty, p) ==
    IF RLt(Zero, oee) /\ RLt(oee, p.target_oee)
    THEN RMul(RMul(RDiv(RSub(p.target_oee, oee), oee), Q(qty)), p.product_margin)
    ELSE Zero

\* lines 83-86
CapacityLoss(oee, qty, p) ==
    IF RLt(Zero, oee) /\ RLt(oee, TargetFraction(p))
    THEN RMul(RMul(RDiv(RSub(TargetFraction(p), oee), oee), Q(qty)), p.product_margin)
    ELSE Zero

\* line 87
TotalLoss(eloss, closs) == RAdd(eloss, closs)

\* lines 76-87: the derived columns of one row
Enrich(r, best, p) ==
    LET oee   == NormalizeOEE(r.oee_raw)
        ue    == UnitEnergy(r.energy_kwh, r.output_qty)
        eloss == EnergyLoss(ue, best, r.output_qty, p.elec_price)
        closs == CapacityLoss(oee, r.output_qty, p)
    IN  [facility_id |-> r.facility_id, entity_id |-> r.entity_id,
         oee_raw |-> r.oee_raw, output_qty |-> r.output_qty,
         energy_kwh |-> r.energy_kwh, date |-> r.date,
         OEE |-> oee, unit_energy |-> ue, energy_loss |-> eloss,
         capacity_loss |-> closs, total_loss |-> TotalLoss(eloss, closs)]

\* lines 76-87
ComputeMetrics ==
    /\ pc = "metrics"
    /\ LET ues  == [i \in 1..Len(df) |-> UnitEnergy(df[i].energy_kwh, df[i].output_qty)]
           best == BestEnergy(ues)
       IN  /\ best_energy' = best
           /\ df' = [i \in 1..Len(df) |-> Enrich(df[i], best, params)]
    /\ pc' = "aggregate"
    /\ UNCHANGED <<inputs, df_columns, group_col, res, mainv>>

\* df[col].nunique(): the number of distinct values of a column
NUnique(rows, col) == Cardinality({rows[i][col] : i \in 1..Len(rows)})

\* line 89
GroupCol(rows) == IF NUnique(rows, "facility_id") > 1 THEN "facility_id" ELSE "entity_id"

\* line 90
AnalysisScope(gc) == IF gc = "facility_id" THEN "cross-facility" ELSE "single-facility"

\* df.groupby(col): the group keys in sorted order and the rows of one key
GroupKeys(rows, col) ==
    SelectSeq(KeyOrder, LAMBDA k : \E i \in 1..Len(rows) : rows[i][col] = k)

GroupRows(rows, col, k) == SelectSeq(rows, LAMBDA r : r[col] = k)

Column(rows, f) == [i \in 1..Len(rows) |-> rows[i][f]]
QColumn(rows, f) == [i \in 1..Len(rows) |-> Q(rows[i][f])]

\* a variant of AvgUnitEnergy that divides the wrong way round
AvgUnitEnergySwapped(energy, qty) == IF RLt(Zero, energy) THEN RDiv(qty, energy) ELSE Zero

\* lines 97-99: sum(energy) / sum(output) of the group, 0 when the output is not positive
AvgUnitEnergy(energy, qty) == IF RLt(Zero, qty) THEN RDiv(energy, qty) ELSE Zero

\* lines 92-99: one row of summary_agg
AggRow(rows, col, k) ==
    LET g      == GroupRows(rows, col, k)
        qty    == RSum(QColumn(g, "output_qty"))
        energy == RSum(QColumn(g, "energy_kwh"))
    IN  [key |-> k,
         OEE |-> RMean(Column(g, "OEE")),
         output_qty |-> qty,
         energy_kwh |-> energy,
         energy_loss |-> RSum(Column(g, "energy_loss")),
         capacity_loss |-> RSum(Column(g, "capacity_loss")),
         total_loss |-> RSum(Column(g, "total_loss")),
         avg_unit_energy |-> AvgUnitEnergy(energy, qty)]

\* lines 92-99: summary_agg before sorting, in group key order
Aggregated(rows, col) ==
    LET keys == GroupKeys(rows, col)
    IN  [i \in 1..Len(keys) |-> AggRow(rows, col, keys[i])]

\* a variant of SortedPair that sorts ascending
SortedPairAscending(a, b) == RLe(a.OEE, b.OEE)

\* line 100: the order of two rows under sort_values("OEE", ascending=False)
SortedPair(a, b) == RLe(b.OEE, a.OEE)

\* line 100: the results sort_values may give; the default quicksort is not
\* stable, so rows of equal OEE may come out in any order
SortedByOEE(agg) ==
    LET n == Len(agg)
        perms == {p \in [1..n -> 1..n] : \A i, j \in 1..n : i # j => p[i] # p[j]}
    IN  { [i \in 1..n |-> agg[p[i]]] : p \in
            {q \in perms : \A i \in 1..n : i < n => SortedPair(agg[q[i]], agg[q[i + 1]])} }

\* lines 89-102
Aggregate ==
    /\ pc = "aggregate"
    /\ group_col' = GroupCol(df)
    /\ \E summary_agg \in SortedByOEE(Aggregated(df, GroupCol(df))) :
          res' = [df |-> df, summary |-> summary_agg,
                  third |-> [kind |-> "scope", text |-> AnalysisScope(GroupCol(df))]]
    /\ pc' = "returned"
    /\ UNCHANGED <<inputs, df_columns, df, best_energy, mainv>>

\* a variant of MainGroupCol that tests for the other scope text
MainGroupColOtherScope(scope) ==
    IF scope = "single-facility" THEN "facility_id" ELSE "entity_id"

\* line 415: "facility_id" if scope_res == cross-facility else "entity_id"
MainGroupCol(scope) == IF scope = "cross-facility" THEN "facility_id" ELSE "entity_id"

\* lines 410-413 and 425
Receive ==
    /\ pc = "returned"
    /\ IF res.df # None
       THEN /\ main_res' = [df |-> res.df, summary |-> res.summary, scope |-> res.third.text]
            /\ data_ready' = TRUE
            /\ pc' = "narrative"
       ELSE /\ UNCHANGED <<main_res, data_ready>>
            /\ pc' = "export"
    /\ UNCHANGED <<inputs, engine, texts_res, figs_res, export, screen>>

(***************************************************************************)
(* Coefficient of variation.  std needs a square root, so a CV is kept as  *)
(* its square together with its sign; NaN and inf are tagged values.       *)
(***************************************************************************)
NaN == [k |-> "nan"]
Inf == [k |-> "inf"]
Num(neg, sq) == [k |-> "num", neg |-> neg, sq |-> sq]

\* Series.std(): sample variance (ddof = 1) of a group, NaN for fewer than two values
Variance(xs) ==
    LET m == RMean(xs)
    IN  RDiv(RSum([i \in 1..Len(xs) |-> RMul(RSub(xs[i], m), RSub(xs[i], m))]),
             Q(Len(xs) - 1))

\* lines 151 and 203: std / mean of the OEE values of one group, scaled by factor
StdOverMean(xs, factor) ==
    IF Len(xs) < 2 THEN NaN
    ELSE LET m == RMean(xs)
             v == Variance(xs)
         IN  IF m = Zero THEN (IF v = Zero THEN NaN ELSE Inf)
             ELSE Num(RLt(m, Zero) /\ v # Zero,
                      RMul(RDiv(v, RMul(m, m)), Q(factor * factor)))

\* the order of two CV values that are not NaN
CvLt(a, b) ==
    CASE a.k = "inf" -> FALSE
      [] b.k = "inf" -> TRUE
      [] a.neg /\ ~b.neg -> TRUE
      [] ~a.neg /\ b.neg -> FALSE
      [] a.neg /\ b.neg -> RLt(b.sq, a.sq)
      [] OTHER -> RLt(a.sq, b.sq)

\* line 204: fillna(0)
FillNa(v) == IF v.k = "nan" THEN Num(FALSE, Zero) ELSE v

\* line 151: cv_series, one entry per group in key order
CvSeries(rows, col) ==
    LET keys == GroupKeys(rows, col)
    IN  [i \in 1..Len(keys) |->
            [key |-> keys[i],
             cv |-> StdOverMean(Column(GroupRows(rows, col, keys[i]), "OEE"), 1)]]

\* lines 152-153: idxmin / idxmax skip NaN and return the first extreme label
Valid(cvs) == {i \in 1..Len(cvs) : cvs[i].cv.k # "nan"}

IdxMin(cvs) ==
    cvs[CHOOSE i \in Valid(cvs) :
            \A j \in Valid(cvs) : /\ ~CvLt(cvs[j].cv, cvs[i].cv)
                                  /\ j < i => CvLt(cvs[i].cv, cvs[j].cv)].key

IdxMax(cvs) ==
    cvs[CHOOSE i \in Valid(cvs) :
            \A j \in Valid(cvs) : /\ ~CvLt(cvs[i].cv, cvs[j].cv)
                                  /\ j < i => CvLt(cvs[j].cv, cvs[i].cv)].key

\* lines 149-155: the stability text; with only NaN values idxmin either
\* returns NaN or raises ValueError, depending on the pandas version
StabilityOutcomes(rows, col) ==
    IF Len(rows) > 1
    THEN LET cvs == CvSeries(rows, col)
         IN  IF Valid(cvs) = {}
             THEN {[kind |-> "named", most_stable |-> "nan", most_unstable |-> "nan"],
                   [kind |-> "raise"]}
             ELSE {[kind |-> "named", most_stable |-> IdxMin(cvs),
                    most_unstable |-> IdxMax(cvs)]}
    ELSE {[kind |-> "insufficient"]}

\* a variant of Tier that tests the 0.7 cutoff before the target
TierCutoffFirst(oee, target) ==
    IF RLt(oee, <<7, 10>>) THEN "crit"
    ELSE IF RLe(target, oee) THEN "good"
    ELSE "avg"

\* lines 162-164
Tier(oee, target) ==
    IF RLe(target, oee) THEN "good"
    ELSE IF RLe(<<7, 10>>, oee) THEN "avg"
    ELSE "crit"

\* lines 159-164: the names of one tier, in the order of summary_agg
TierList(summary, target, t) ==
    LET sel == SelectSeq(summary, LAMBDA row : Tier(row.OEE, target) = t)
    IN  [i \in 1..Len(sel) |-> sel[i].key]

\* lines 111-171 without the stability text
Texts(rows, summary, col, p, stability) ==
    LET best_m  == summary[1]
        worst_m == summary[Len(summary)]
        both    == RLt(Zero, best_m.avg_unit_energy) /\ RLt(Zero, worst_m.avg_unit_energy)
        potential_prod ==
            IF RLt(Zero, worst_m.OEE)
            THEN RMul(RDiv(RSub(best_m.OEE, worst_m.OEE), worst_m.OEE), worst_m.output_qty)
            ELSE Zero
    IN  [group_col |-> col,
         avg_oee |-> RMean(Column(rows, "OEE")),
         total_loss |-> RSum(Column(rows, "total_loss")),
         best |-> best_m.key,
         worst |-> worst_m.key,
         eff_gap_pct |->
            IF both
            THEN RMul(RDiv(RSub(worst_m.avg_unit_energy, best_m.avg_unit_energy),
                           best_m.avg_unit_energy), Q(100))
            ELSE Zero,
         multiplier |->
            IF both THEN RDiv(worst_m.avg_unit_energy, best_m.avg_unit_energy) ELSE None,
         potential_prod |-> potential_prod,
         potential_rev |-> RMul(potential_prod, p.product_margin),
         stability |-> stability,
         crit_list |-> TierList(summary, TargetFraction(p), "crit"),
         avg_list |-> TierList(summary, TargetFraction(p), "avg"),
         good_list |-> TierList(summary, TargetFraction(p), "good")]

\* lines 414-416 and 426: generate_narrative, and the handler of what it raises
Narrative ==
    /\ pc = "narrative"
    /\ \E st \in StabilityOutcomes(main_res.df, MainGroupCol(main_res.scope)) :
          IF st.kind = "raise"
          THEN /\ texts_res' = texts_res
               /\ pc' = "export"
          ELSE /\ texts_res' = Texts(main_res.df, main_res.summary,
                                     MainGroupCol(main_res.scope), params, st)
               /\ pc' = "charts"
    /\ UNCHANGED <<inputs, engine, data_ready, main_res, figs_res, export, screen>>

\* lines 202-204: cv_data of create_cv_chart
CvTable(rows, col) ==
    LET keys == GroupKeys(rows, col)
    IN  [i \in 1..Len(keys) |->
            [key |-> keys[i],
             CV |-> FillNa(StdOverMean(Column(GroupRows(rows, col, keys[i]), "OEE"), 100))]]

\* lines 417-424: the six figures, each by the column it groups by
Charts ==
    /\ pc = "charts"
    /\ figs_res' =
          [rank    |-> [group_col |-> MainGroupCol(main_res.scope)],
           cv      |-> [group_col |-> MainGroupCol(main_res.scope),
                        cv_data |-> CvTable(main_res.df, MainGroupCol(main_res.scope))],
           scatter |-> [group_col |-> MainGroupCol(main_res.scope)],
           dual    |-> [group_col |-> MainGroupCol(main_res.scope)],
           pie     |-> [group_col |-> MainGroupCol(main_res.scope)],
           unit    |-> [group_col |-> MainGroupCol(main_res.scope)]]
    /\ pc' = "export"
    /\ UNCHANGED <<inputs, engine, data_ready, main_res, texts_res, export, screen>>

\* lines 431-439: generate_docx reads df['date'] and texts[...]
Export ==
    /\ pc = "export"
    /\ export' = IF ~data_ready THEN "disabled"
                 ELSE IF texts_res = None \/ "date" \notin df_columns THEN "failed"
                 ELSE "download"
    /\ pc' = "render"
    /\ UNCHANGED <<inputs, engine, data_ready, main_res, texts_res, figs_res, screen>>

\* lines 429 and 441-475: the report is rendered when the start button was pressed
Render ==
    /\ pc = "render"
    /\ \E start_btn \in BOOLEAN :
          screen' = IF ~(start_btn /\ data_ready) THEN "none"
                    ELSE IF texts_res = None THEN "exception"
                    ELSE "report"
    /\ pc' = "done"
    /\ UNCHANGED <<inputs, engine, data_ready, main_res, texts_res, figs_res, export>>

Next ==
    \/ Rename
    \/ SkipEmpty
    \/ Validate
    \/ ParseDates
    \/ FillFacility
    \/ ComputeMetrics
    \/ Aggregate
    \/ Receive
    \/ Narrative
    \/ Charts
    \/ Export
    \/ Render

Spec == Init /\ [][Next]_vars

(***************************************************************************)
(* Properties                                                              *)
(***************************************************************************)
Enriched == best_energy # None

\* C1: whenever one of the four required fields is absent after synonym
\* renaming, clean_and_process returns no enriched records and no groups and
\* a message listing exactly the absent fields, no date has been parsed, no
\* metric has been computed, and main holds no result.
C1_SchemaErrorExact ==
    LET required == {required_cols[i] : i \in DOMAIN required_cols}
        absent   == {c \in required :
                        /\ c \notin columns
                        /\ ~\E k \in DOMAIN rename_map : k \in columns /\ rename_map[k] = c}
    IN  (pc \notin {"start", "validate"} /\ df_raw # <<>> /\ absent # {}) =>
            /\ res # None
            /\ res.df = None
            /\ res.summary = None
            /\ res.third.kind = "missing_columns"
            /\ {res.third.cols[i] : i \in DOMAIN res.third.cols} = absent
            /\ Len(res.third.cols) = Cardinality(absent)
            /\ \A i \in 1..Len(df) :
                  /\ df[i].date \notin {"date", "NaT"}
                  /\ "OEE" \notin DOMAIN df[i]
            /\ best_energy = None
            /\ group_col = NoValue
            /\ ~data_ready
            /\ main_res.df = None
            /\ main_res.summary = None
            /\ texts_res = None
            /\ figs_res = <<>>

\* a finished run over a table with a date column holding an unparseable
\* date, rejected for two missing fields
C1_Witness ==
    /\ pc = "done"
    /\ res # None
    /\ res.df = None
    /\ res.third.kind = "missing_columns"
    /\ Len(res.third.cols) = 2
    /\ "date" \in df_columns
    /\ \E i \in 1..Len(df_raw) : df_raw[i].date = "bad"

\* C2: every enriched record has energy_loss >= 0 and
\* capacity_opportunity_loss >= 0, whatever the output quantity and the
\* parameters are.
C2_NonNegativeLosses ==
    Enriched =>
        \A i \in 1..Len(df) :
            /\ RLe(Zero, df[i].energy_loss)
            /\ RLe(Zero, df[i].capacity_loss)

\* C3: the benchmark is the minimum strictly positive unit energy of the
\* whole table: no record has a positive unit energy below it, some record
\* attains it when a positive unit energy exists, and it is 0 otherwise; a
\* record at the benchmark has no energy loss.
C3_BenchmarkIsMinimum ==
    Enriched =>
        LET positive == {i \in 1..Len(df) : RLt(Zero, df[i].unit_energy)}
        IN  /\ \A i \in positive : RLe(best_energy, df[i].unit_energy)
            /\ positive # {} =>
                   /\ RLt(Zero, best_energy)
                   /\ \E i \in positive : df[i].unit_energy = best_energy
            /\ positive = {} => best_energy = Zero
            /\ \A i \in 1..Len(df) :
                   df[i].unit_energy = best_energy => df[i].energy_loss = Zero

\* a table of two groups where the benchmark is positive, one record lies
\* above it and one record has unit energy 0
C3_Witness ==
    /\ Enriched
    /\ RLt(Zero, best_energy)
    /\ \E i, j, k \in 1..Len(df) :
          /\ df[i].unit_energy = best_energy
          /\ RLt(best_energy, df[j].unit_energy)
          /\ df[k].unit_energy = Zero
          /\ df[i].entity_id # df[j].entity_id

\* the sum of vals[i] over the indices i of S
RECURSIVE SumIdx(_, _)
SumIdx(S, vals) ==
    IF S = {} THEN Zero
    ELSE LET i == CHOOSE x \in S : TRUE
         IN  RAdd(vals[i], SumIdx(S \ {i}, vals))

Returned == res # None /\ res.df # None

\* C4: every group of the aggregate table holds the sums of output, energy
\* and the three losses of its records and the mean of their OEE, and when
\* its summed output is positive its unit energy is sum(energy)/sum(output);
\* every record belongs to exactly one group.
C4_WeightedAggregation ==
    Returned =>
        LET summary == res.summary
            n       == Len(df)
            members(g) == {i \in 1..n : df[i][group_col] = summary[g].key}
            qcol(f) == [i \in 1..n |-> Q(df[i][f])]
            rcol(f) == [i \in 1..n |-> df[i][f]]
        IN  /\ \A i \in 1..n :
                  Cardinality({g \in 1..Len(summary) : i \in members(g)}) = 1
            /\ \A g \in 1..Len(summary) :
                  LET m   == members(g)
                      qty == SumIdx(m, qcol("output_qty"))
                      en  == SumIdx(m, qcol("energy_kwh"))
                  IN  /\ m # {}
                      /\ summary[g].output_qty = qty
                      /\ summary[g].energy_kwh = en
                      /\ summary[g].energy_loss = SumIdx(m, rcol("energy_loss"))
                      /\ summary[g].capacity_loss = SumIdx(m, rcol("capacity_loss"))
                      /\ summary[g].total_loss = SumIdx(m, rcol("total_loss"))
                      /\ RMul(summary[g].OEE, Q(Cardinality(m))) = SumIdx(m, rcol("OEE"))
                      /\ RLt(Zero, qty) => RMul(summary[g].avg_unit_energy, qty) = en

\* a group of several records with positive output whose unit energy differs
\* from the arithmetic mean of the unit energies of its records
C4_Witness ==
    /\ Returned
    /\ \E g \in 1..Len(res.summary) :
          LET m == {i \in 1..Len(df) : df[i][group_col] = res.summary[g].key}
          IN  /\ Cardinality(m) > 1
              /\ RLt(Zero, res.summary[g].output_qty)
              /\ RMul(res.summary[g].avg_unit_energy, Q(Cardinality(m)))
                    # SumIdx(m, [i \in 1..Len(df) |-> df[i].unit_energy])

\* C5: a record with 0 < oee < target_oee has capacity_opportunity_loss =
\* ((target_oee - oee) / oee) * output_qty * unit_margin, every other record
\* has 0, and total_loss = energy_loss + capacity_opportunity_loss.
C5_CapacityLossFormula ==
    Enriched =>
        \A i \in 1..Len(df) :
            LET oee    == df[i].OEE
                target == <<params.target_oee[1], params.target_oee[2] * 100>>
            IN  /\ (RLt(Zero, oee) /\ RLt(oee, target)) =>
                       RMul(df[i].capacity_loss, oee) =
                           RMul(RMul(RSub(target, oee), Q(df[i].output_qty)),
                                params.product_margin)
                /\ ~(RLt(Zero, oee) /\ RLt(oee, target)) => df[i].capacity_loss = Zero
                /\ RSub(df[i].total_loss, df[i].energy_loss) = df[i].capacity_loss

\* a table with a record below the target that has a loss, a record at or
\* above the target and a record of OEE 0
C5_Witness ==
    /\ Enriched
    /\ \E i, j, k \in 1..Len(df) :
          /\ RLt(Zero, df[i].OEE)
          /\ RLt(df[i].OEE, TargetFraction(params))
          /\ RLt(Zero, df[i].capacity_loss)
          /\ RLe(TargetFraction(params), df[j].OEE)
          /\ df[k].OEE = Zero

C7_OneDimension ==
    LET has_fac    == "facility_id" \in columns
        facilities == {IF has_fac THEN df_raw[i].facility_id ELSE DefaultFacility :
                          i \in 1..Len(df_raw)}
        dimension  == IF Cardinality(facilities) > 1 THEN "facility_id" ELSE "entity_id"
    IN  /\ Returned =>
              /\ group_col = dimension
              /\ res.third.text = (IF dimension = "facility_id"
                                   THEN "cross-facility" ELSE "single-facility")
              /\ \A g \in 1..Len(res.summary) :
                    \E i \in 1..Len(df) : df[i][dimension] = res.summary[g].key
        /\ texts_res # None => texts_res.group_col = dimension
        /\ figs_res # <<>> =>
              \A c \in DOMAIN figs_res : figs_res[c].group_col = dimension

\* a finished cross-facility run with its narrative and its six charts
C7_Witness ==
    /\ pc = "done"
    /\ group_col = "facility_id"
    /\ texts_res # None
    /\ DOMAIN figs_res = {"rank", "cv", "scatter", "dual", "pie", "unit"}

\* the number of times name k stands in list l
Occurrences(l, k) == Cardinality({i \in DOMAIN l : l[i] = k})

\* C8 as stated: every group is in exactly one tier list, in critical iff
\* its mean OEE < 0.70, in improving iff 0.70 <= mean OEE < target_oee, and
\* in benchmark iff mean OEE >= target_oee.
C8_TierPartition ==
    texts_res # None =>
        \A g \in 1..Len(main_res.summary) :
            LET k      == main_res.summary[g].key
                oee    == main_res.summary[g].OEE
                target == <<params.target_oee[1], params.target_oee[2] * 100>>
            IN  /\ Occurrences(texts_res.crit_list, k) + Occurrences(texts_res.avg_list, k)
                      + Occurrences(texts_res.good_list, k) = 1
                /\ Occurrences(texts_res.crit_list, k) = 1 <=> RLt(oee, <<7, 10>>)
                /\ Occurrences(texts_res.avg_list, k) = 1 <=>
                      (RLe(<<7, 10>>, oee) /\ RLt(oee, target))
                /\ Occurrences(texts_res.good_list, k) = 1 <=> RLe(target, oee)

\* C8 amended: every group is in exactly one tier list, in benchmark iff
\* mean OEE >= target_oee, in improving iff 0.70 <= mean OEE < target_oee,
\* and in critical iff mean OEE < 0.70 and mean OEE < target_oee.
C8_TierPartitionTargetFirst ==
    texts_res # None =>
        \A g \in 1..Len(main_res.summary) :
            LET k      == main_res.summary[g].key
                oee    == main_res.summary[g].OEE
                target == <<params.target_oee[1], params.target_oee[2] * 100>>
            IN  /\ Occurrences(texts_res.crit_list, k) + Occurrences(texts_res.avg_list, k)
                      + Occurrences(texts_res.good_list, k) = 1
                /\ Occurrences(texts_res.crit_list, k) = 1 <=>
                      (RLt(oee, <<7, 10>>) /\ RLt(oee, target))
                /\ Occurrences(texts_res.avg_list, k) = 1 <=>
                      (RLe(<<7, 10>>, oee) /\ RLt(oee, target))
                /\ Occurrences(texts_res.good_list, k) = 1 <=> RLe(target, oee)

\* a narrative for a target below 0.70 with a group between the target and
\* 0.70 in the benchmark list and another group in the critical list
C8_Witness ==
    /\ texts_res # None
    /\ RLt(TargetFraction(params), <<7, 10>>)
    /\ texts_res.crit_list # <<>>
    /\ \E g \in 1..Len(main_res.summary) :
          /\ RLt(main_res.summary[g].OEE, <<7, 10>>)
          /\ Occurrences(texts_res.good_list, main_res.summary[g].key) = 1

\* C9: a finished analysis has its narrative and its charts; every group of
\* one record, and every group of mean OEE 0, has CV 0 in the CV table, and
\* the stability text names as most stable a group whose CV, with those
\* groups at 0, is the lowest.
C9_DegenerateGroupsCVZero ==
    (pc = "done" /\ data_ready) =>
        LET col  == MainGroupCol(main_res.scope)
            rows == main_res.df
            keys == GroupKeys(rows, col)
            oees(k) == Column(GroupRows(rows, col, k), "OEE")
            degenerate == {k \in {keys[i] : i \in 1..Len(keys)} :
                              Len(oees(k)) = 1 \/ RSum(oees(k)) = Zero}
        IN  /\ texts_res # None
            /\ DOMAIN figs_res = {"rank", "cv", "scatter", "dual", "pie", "unit"}
            /\ \A i \in 1..Len(figs_res.cv.cv_data) :
                  figs_res.cv.cv_data[i].key \in degenerate =>
                      figs_res.cv.cv_data[i].CV = Num(FALSE, Zero)
            /\ (Len(rows) > 1 /\ degenerate # {}) =>
                  /\ texts_res.stability.kind = "named"
                  /\ \E i \in 1..Len(figs_res.cv.cv_data) :
                        /\ figs_res.cv.cv_data[i].key = texts_res.stability.most_stable
                        /\ figs_res.cv.cv_data[i].CV = Num(FALSE, Zero)

\* C10: the derived oee of every record is oee_raw / 100 when oee_raw > 1.0
\* and oee_raw otherwise, and lies in the range 0..1.
C10_OEEIsFraction ==
    Enriched =>
        \A i \in 1..Len(df) :
            /\ RLt(Q(1), df[i].oee_raw) => RMul(df[i].OEE, Q(100)) = df[i].oee_raw
            /\ RLe(df[i].oee_raw, Q(1)) => df[i].OEE = df[i].oee_raw
            /\ RLe(Zero, df[i].OEE)
            /\ RLe(df[i].OEE, Q(1))

\* C11: the group the narrative names as benchmark, the first of the
\* aggregate table, has an aggregated unit energy at most that of every
\* other group, and when the multiplier and the cost gap are reported the
\* multiplier is >= 1 and the gap is >= 0.
C11_BenchmarkHasLowestUnitEnergy ==
    texts_res # None =>
        /\ \E g \in 1..Len(main_res.summary) :
              /\ main_res.summary[g].key = texts_res.best
              /\ \A h \in 1..Len(main_res.summary) :
                    RLe(main_res.summary[g].avg_unit_energy,
                        main_res.summary[h].avg_unit_energy)
        /\ texts_res.multiplier # None =>
              /\ RLe(Q(1), texts_res.multiplier)
              /\ RLe(Zero, texts_res.eff_gap_pct)

\* C12: once main has passed the analysis step with data_ready true, the
\* enriched records, the aggregate table, the scope, the narrative texts and
\* the six figures are all present.
C12_DataReadyImpliesResults ==
    (data_ready /\ pc \in {"export", "render", "done"}) =>
        /\ main_res.df # None
        /\ main_res.summary # None
        /\ main_res.scope # NoValue
        /\ texts_res # None
        /\ DOMAIN figs_res = {"rank", "cv", "scatter", "dual", "pie", "unit"}
====
